---- MODULE Spec2Model ----
(***************************************************************************)
(* Model of the AI Flow Daily orchestrator (src/main.py): the article      *)
(* pipeline (run_pipeline / process_article), the admin approval handler   *)
(* (handle_approval), the process-local pending_posts cache and the Notion *)
(* durable store (src/utils/notion_client.py).                             *)
(*                                                                         *)
(* Every `await` of the source is a step boundary.  A call dispatched with *)
(* asyncio.to_thread, or an awaited bot.send_*, takes effect in the remote *)
(* system in one step and the coroutine resumes in a later step.           *)
(* In Spec, invocations of handle_approval may overlap at their await     *)
(* points; `calls` records, per page id, whether they did.  In             *)
(* SpecSequential the dispatcher hands over one decision event at a time.  *)
(* SpecPipeline follows run_pipeline alone.  SpecRu also follows the       *)
(* _run_ru_pipeline tasks that approvals create.  A synchronous call made  *)
(* by a coroutine on the event loop (send_error) is a position in which no *)
(* other coroutine can take a step.                                        *)
(* SpecRecovery starts the decision handler over a database left by an     *)
(* earlier run, SpecGate follows the submission of a second article next   *)
(* to the decisions on a first one, and SpecChat follows one               *)
(* openrouter_client.chat_completion call through its attempts.            *)
(* SpecCycle follows a cycle of run_pipeline together with the             *)
(* chat_completion calls of its nodes, under weak fairness of the steps of *)
(* the cycle under way.  SpecPayload adds the callback queries whose       *)
(* payload is not one of the two a keyboard carries.                       *)
(***************************************************************************)
EXTENDS Integers, Sequences, FiniteSets, TLC

\* ---------------------------------------------------------------- bounds
\* handler slots, decision events, restarts and fetched candidates explored
\* by Spec and SpecSequential, and how many of these events in total
NumHandlers == 2
MaxDecisions == 2
MaxRestarts == 1
Submissions == 1
MaxEvents == 3
\* events, and secondary pipelines followed, in SpecRu
RuEvents == 2
MaxRuRuns == 1
\* distinct URLs, and candidates fetched in SpecPipeline
NumUrls == 2
MaxCandidates == 3
\* chat_completion calls followed in SpecChat
MaxCalls == 1

\* ------------------------------------------------------ program constants
\* notion_client.create_article_page stores post_text[:2000]
NotionTextLimit == 2000
\* translator.execute and translation_reviewer.execute reject an output whose
\* stripped length is below 30
MinRuChars == 30
\* openrouter_client.MAX_RETRIES
MAX_RETRIES == 3

Urls == 1..NumUrls
PageIds == 1..MaxCandidates
Handlers == 1..NumHandlers

SentForApproval == "Sent for approval"
Posted == "Posted"
Declined == "Declined"
Terminal == {Posted, Declined}

Min(a, b) == IF a < b THEN a ELSE b

\* ------------------------------------------------ creative references
\* A creative reference is a string, modelled as a tuple of characters.
NoneStr == <<"n", "o", "n", "e">>
Mp4Url == <<"v", ".", "m", "p", "4">>

VideoExts ==
  { <<".", "m", "p", "4">>, <<".", "m", "o", "v">>, <<".", "w", "e", "b", "m">> }

LowerChar(c) ==
  CASE c = "M" -> "m"
    [] c = "P" -> "p"
    [] c = "O" -> "o"
    [] c = "V" -> "v"
    [] c = "W" -> "w"
    [] c = "E" -> "e"
    [] c = "B" -> "b"
    [] OTHER -> c

LowerStr(s) == [i \in 1..Len(s) |-> LowerChar(s[i])]

EndsWith(s, suf) ==
  /\ Len(s) >= Len(suf)
  /\ SubSeq(s, Len(s) - Len(suf) + 1, Len(s)) = suf

InferCreativeType_CaseSensitive(c_url) ==
  IF c_url # <<>> /\ (\E e \in VideoExts : EndsWith(c_url, e)) THEN "video"
  ELSE IF c_url # <<>> /\ c_url # NoneStr THEN "image"
  ELSE "none"

\* main.py 174-181: creative type re-inferred from the stored reference
InferCreativeType(c_url) ==
  IF c_url # <<>> /\ (\E e \in VideoExts : EndsWith(LowerStr(c_url), e)) THEN "video"
  ELSE IF c_url # <<>> /\ c_url # NoneStr THEN "image"
  ELSE "none"

\* find_creative.execute results the pipeline can obtain
Creatives ==
  { [creative_type |-> "none", creative_url |-> NoneStr],
    [creative_type |-> "video", creative_url |-> Mp4Url] }

\* lengths (in characters) of the post text after fix_html
PostLens == {2400}

NoData == [post_text |-> 0, creative_type |-> "none", creative_url |-> NoneStr]

VARIABLES
  store,          \* Notion database: page id (index) -> record
  pending_posts,  \* post_to_telegram.pending_posts: page id -> article_data
  admin_msg,      \* page id -> text of its Approve/Decline message in the admin channel
  keyboards,      \* the inline keyboards delivered to the admin channel, in order
  main_channel,   \* page id -> sequence of payloads published to the main channel
  ru_tasks,       \* page id -> number of _run_ru_pipeline tasks created
  rus,            \* the _run_ru_pipeline tasks that are followed, in creation order
  ru_channel,     \* page id -> sequence of posts published to the RU channel
  hs,             \* handle_approval invocations (one record per slot)
  pl,             \* run_pipeline / process_article position and locals
  calls,          \* page id -> pattern of the decide calls made for it so far
  cc,             \* the openrouter_client.chat_completion call that is followed
  budget          \* decide calls, restarts, candidate fetches, events, secondary
                  \* pipelines and chat_completion calls still explored

vars ==
  <<store, pending_posts, admin_msg, keyboards, main_channel, ru_tasks, rus, ru_channel,
    hs, pl, calls, cc, budget>>

\* ----------------------------------------------------------- durable store
\* notion_client.create_article_page
NewRecord(url, creative_url, post_len) ==
  [url |-> url,
   post_text |-> Min(post_len, NotionTextLimit),
   creative_url |-> IF creative_url # <<>> /\ creative_url # NoneStr
                    THEN creative_url ELSE <<>>,
   status |-> SentForApproval,
   post_url |-> 0]

\* notion_client.url_exists (fault -> False)
UrlStored(url) == \E i \in DOMAIN store : store[i].url = url

url_exists(url, fault) == IF fault THEN FALSE ELSE UrlStored(url)

update_page_status_ClearsCreative(page_id, status, post_url) ==
  [store EXCEPT ![page_id] =
     [@ EXCEPT !.status = status,
               !.creative_url = <<>>,
               !.post_url = IF post_url # 0 THEN post_url ELSE @]]

\* notion_client.update_page_status: sets Status, and post_url when given
update_page_status(page_id, status, post_url) ==
  [store EXCEPT ![page_id] =
     [@ EXCEPT !.status = status,
               !.post_url = IF post_url # 0 THEN post_url ELSE @]]

get_article_data_NoCreative(page_id) ==
  [post_text |-> store[page_id].post_text,
   creative_url |-> NoneStr,
   status |-> store[page_id].status]

\* notion_client.get_article_data
get_article_data(page_id) ==
  [post_text |-> store[page_id].post_text,
   creative_url |-> IF store[page_id].creative_url # <<>>
                    THEN store[page_id].creative_url ELSE NoneStr,
   status |-> store[page_id].status]

\* post_to_telegram.post_to_main_channel: https://t.me/<channel>/<message_id>
PostUrl(page_id) == 100 * page_id + Len(main_channel[page_id]) + 1

\* -------------------------------------------------------------------- Init
IdleHandler ==
  [pc |-> "idle", action |-> "none", page_id |-> 0, data |-> NoData,
   recovered |-> FALSE, seen |-> "none", result |-> 0, upd |-> "no"]

\* how the previous article left process_article: whether a stage met a
\* fault, and the node_name of the send_error call made for it
NoDrop == [fault |-> FALSE, alert |-> "none"]

IdlePipeline ==
  [pc |-> "idle", queue |-> <<>>, url |-> 0, post_len |-> 0,
   creative |-> [creative_type |-> "none", creative_url |-> NoneStr],
   page_id |-> 0, start_urls |-> {}, dedup |-> "none", drop |-> NoDrop]

\* no chat_completion call is followed
IdleChat ==
  [pc |-> "idle", json_mode |-> FALSE, lib |-> "json", attempt |-> 0,
   content |-> "unbound", tried |-> <<>>, error |-> "none"]

\* main.py 267-302 over an empty database: nothing pending, nothing sent,
\* no handler and no cycle running
Boot(b) ==
  /\ store = <<>>
  /\ pending_posts = [i \in {} |-> NoData]
  /\ admin_msg = [i \in PageIds |-> "none"]
  /\ keyboards = <<>>
  /\ main_channel = [i \in PageIds |-> <<>>]
  /\ ru_tasks = [i \in PageIds |-> 0]
  /\ rus = <<>>
  /\ ru_channel = [i \in PageIds |-> <<>>]
  /\ hs = [h \in Handlers |-> IdleHandler]
  /\ pl = IdlePipeline
  /\ calls = [i \in PageIds |-> "none"]
  /\ cc = IdleChat
  /\ budget = b

Init ==
  Boot([decisions |-> MaxDecisions, restarts |-> MaxRestarts, fetches |-> Submissions,
        events |-> MaxEvents, ru |-> 0, chats |-> 0])

\* ------------------------------------------------------- handle_approval
Active(h) == hs[h].pc # "idle"

Busy(page_id) == \E g \in Handlers : Active(g) /\ hs[g].page_id = page_id

\* utils/telegram_error.send_error is a synchronous requests.post (timeout 10 s).
\* Coroutines call it directly, so until it returns the event loop runs nothing
\* else.  These are the positions inside such a call:
\*   handle_approval    post_to_telegram.py 186 (send failed), main.py 230 (except)
\*   run_pipeline       main.py 136 (article), main.py 140 (cycle),
\*                      post_to_telegram.py 119 (send_preview)
\*   _run_ru_pipeline   main.py 261 (except), post_to_ru.py 108 (post failed)
HandlerBlocking == {"send_failed", "crashed"}

PipelineBlocking == {"article_failed", "preview_failed", "cycle_failed"}

RuBlocking == {"ru_failed", "post_failed"}

LoopFree ==
  /\ pl.pc \notin PipelineBlocking
  /\ \A g \in Handlers : hs[g].pc \notin HandlerBlocking
  /\ \A t \in DOMAIN rus : rus[t].pc \notin RuBlocking

StatusFor_AlwaysPosted(action) == Posted

\* main.py 201 / 220: mark_posted on approve, mark_declined on decline
StatusFor(action) == IF action = "approve" THEN Posted ELSE Declined

\* Pattern of the decide calls for one page id: "approve" / "decline" while every
\* call so far had that outcome and started after the previous one had ended,
\* "mixed" for sequential calls with both outcomes, "overlapped" otherwise.
NextCalls(old, action, overlapped) ==
  IF overlapped \/ old = "overlapped" THEN "overlapped"
  ELSE IF old \in {"none", action} THEN action
  ELSE "mixed"

\* post_to_telegram._build_keyboard: callback_data "approve:<id>" and
\* "decline:<id>", a payload being the pair that main.py 154-158 splits it into
build_keyboard(callback_id) ==
  [approve |-> <<"approve", callback_id>>, decline |-> <<"decline", callback_id>>]

HStart_LooksUpBeforeAnswer(h, action, page_id, acked) ==
  /\ ~Active(h)
  /\ LoopFree
  /\ \A g \in Handlers : g < h => Active(g)
  /\ \E k \in DOMAIN keyboards :
       <<action, page_id>> \in {keyboards[k].approve, keyboards[k].decline}
  /\ budget.decisions > 0
  /\ budget.events > 0
  /\ IF acked
     THEN /\ hs' = [hs EXCEPT ![h] = [IdleHandler EXCEPT !.pc = "acked", !.action = action,
                                                        !.page_id = page_id,
                                                        !.seen = store[page_id].status]]
          /\ calls' = [calls EXCEPT ![page_id] = NextCalls(@, action, Busy(page_id))]
     ELSE UNCHANGED <<hs, calls>>
  /\ budget' = [budget EXCEPT !.decisions = @ - 1, !.events = @ - 1]
  /\ UNCHANGED <<cc, keyboards, rus, ru_channel, store, pending_posts, admin_msg, main_channel, ru_tasks, pl>>

\* main.py 148-158: query.answer(), then the payload "<action>:<page_id>" is split.
\* The payload comes from a button of a keyboard that was delivered.
\* query.answer() is awaited outside the try block: when it raises (acked is
\* FALSE) the invocation ends there.
\* A new invocation takes the lowest free slot (slots are interchangeable).
HStart(h, action, page_id, acked) ==
  /\ ~Active(h)
  /\ LoopFree
  /\ \A g \in Handlers : g < h => Active(g)
  /\ \E k \in DOMAIN keyboards :
       <<action, page_id>> \in {keyboards[k].approve, keyboards[k].decline}
  /\ budget.decisions > 0
  /\ budget.events > 0
  /\ IF acked
     THEN /\ hs' = [hs EXCEPT ![h] = [IdleHandler EXCEPT !.pc = "acked", !.action = action,
                                                        !.page_id = page_id]]
          /\ calls' = [calls EXCEPT ![page_id] = NextCalls(@, action, Busy(page_id))]
     ELSE UNCHANGED <<hs, calls>>
  /\ budget' = [budget EXCEPT !.decisions = @ - 1, !.events = @ - 1]
  /\ UNCHANGED <<cc, keyboards, rus, ru_channel, store, pending_posts, admin_msg, main_channel, ru_tasks, pl>>

\* main.py 272-273: the Application is built with concurrent_updates at its
\* default, so the dispatcher hands an update to handle_approval only after the
\* handler of the previous update has returned.
HStartSequential(h, action, page_id, acked) ==
  /\ \A g \in Handlers : ~Active(g)
  /\ HStart(h, action, page_id, acked)

\* main.py 192 and 216: the branch taken for the action of the payload; with
\* any other action neither branch is taken and the handler returns
Dispatch(action) ==
  IF action = "approve" THEN "sending"
  ELSE IF action = "decline" THEN "marking"
  ELSE "idle"

HLookup_TakesOtherForDecline(h) ==
  /\ hs[h].pc = "acked"
  /\ hs[h].action # "malformed"
  /\ LoopFree
  /\ LET id == hs[h].page_id
         hit == id \in DOMAIN pending_posts
     IN hs' = [hs EXCEPT ![h] =
          [@ EXCEPT !.seen = store[id].status,
                    !.data = IF hit THEN pending_posts[id] ELSE @,
                    !.pc = IF ~hit THEN "fetching"
                           ELSE IF hs[h].action = "approve" THEN "sending"
                           ELSE "marking"]]
  /\ UNCHANGED <<cc, keyboards, rus, ru_channel, store, pending_posts, admin_msg, main_channel, ru_tasks, pl, calls, budget>>

\* main.py 160-168 and 192-197 / 216-220: cache lookup; on a hit the handler goes
\* straight to the action, with no status check.
HLookup(h) ==
  /\ hs[h].pc = "acked"
  /\ hs[h].action # "malformed"
  /\ LoopFree
  /\ LET id == hs[h].page_id
         hit == id \in DOMAIN pending_posts
     IN hs' = [hs EXCEPT ![h] =
          IF hit /\ Dispatch(hs[h].action) = "idle"
          THEN IdleHandler
          ELSE [@ EXCEPT !.seen = store[id].status,
                         !.data = IF hit THEN pending_posts[id] ELSE @,
                         !.pc = IF ~hit THEN "fetching" ELSE Dispatch(hs[h].action)]]
  /\ UNCHANGED <<cc, keyboards, rus, ru_channel, store, pending_posts, admin_msg, main_channel, ru_tasks, pl, calls, budget>>

\* main.py 174-181 applied to the dict returned by get_article_data
Recovered(d) ==
  [post_text |-> d.post_text,
   creative_type |-> InferCreativeType(d.creative_url),
   creative_url |-> d.creative_url]

\* main.py 183-190: the status check of the recovery path
ShortCircuit(status) ==
  IF status = Posted THEN "already_posted"
  ELSE IF status = Declined THEN "already_declined"
  ELSE "none"

\* query.edit_message_text(text) of the decision message of hs[h].page_id.  The
\* call raises on a fault, and always when the message already shows that text
\* (Telegram: "Message is not modified"); then nothing is shown and control
\* passes to main.py 228-230, where send_error runs on the loop.
Edit(h, text, ok, done) ==
  IF ok
  THEN /\ admin_msg[hs[h].page_id] # text
       /\ admin_msg' = [admin_msg EXCEPT ![hs[h].page_id] = text]
       /\ hs' = [hs EXCEPT ![h] = done]
  ELSE /\ admin_msg' = admin_msg
       /\ hs' = [hs EXCEPT ![h] = [@ EXCEPT !.pc = "crashed"]]

HRecover_DeclinesMissing(h, fault, ok) ==
  /\ hs[h].pc = "fetching"
  /\ LoopFree
  /\ LET d == get_article_data(hs[h].page_id)
     IN IF fault
        THEN /\ Edit(h, "not_found", ok, IdleHandler)
             /\ store' = update_page_status(hs[h].page_id, Declined, 0)
        ELSE /\ store' = store
             /\ IF ShortCircuit(d.status) # "none"
                THEN Edit(h, ShortCircuit(d.status), ok, IdleHandler)
                ELSE /\ ok
                     /\ hs' = [hs EXCEPT ![h] =
                          [@ EXCEPT !.recovered = TRUE,
                                    !.data = Recovered(d),
                                    !.pc = IF hs[h].action = "approve" THEN "sending"
                                           ELSE "marking"]]
                     /\ admin_msg' = admin_msg
  /\ UNCHANGED <<cc, keyboards, rus, ru_channel, pending_posts, main_channel, ru_tasks, pl, calls, budget>>

\* main.py 166-190: recovery from Notion, creative type inference, status check
HRecover(h, fault, ok) ==
  /\ hs[h].pc = "fetching"
  /\ LoopFree
  /\ LET d == get_article_data(hs[h].page_id)
     IN IF fault
        THEN Edit(h, "not_found", ok, IdleHandler)
        ELSE IF ShortCircuit(d.status) # "none"
        THEN Edit(h, ShortCircuit(d.status), ok, IdleHandler)
        ELSE /\ ok
             /\ hs' = [hs EXCEPT ![h] =
                  IF Dispatch(hs[h].action) = "idle"
                  THEN IdleHandler
                  ELSE [@ EXCEPT !.recovered = TRUE,
                                 !.data = Recovered(d),
                                 !.pc = Dispatch(hs[h].action)]]
             /\ admin_msg' = admin_msg
  /\ UNCHANGED <<cc, keyboards, rus, ru_channel, store, pending_posts, main_channel, ru_tasks, pl, calls, budget>>

HSend_DropsEntryOnFailure(h, ok) ==
  /\ hs[h].pc = "sending"
  /\ LoopFree
  /\ LET id == hs[h].page_id
     IN IF ok
        THEN /\ main_channel' = [main_channel EXCEPT ![id] = Append(@, hs[h].data)]
             /\ hs' = [hs EXCEPT ![h] = [@ EXCEPT !.result = PostUrl(id),
                                                  !.pc = "marking"]]
             /\ pending_posts' = pending_posts
        ELSE /\ main_channel' = main_channel
             /\ hs' = [hs EXCEPT ![h] = [@ EXCEPT !.pc = "send_failed"]]
             /\ pending_posts' = [i \in DOMAIN pending_posts \ {id} |-> pending_posts[i]]
  /\ UNCHANGED <<cc, keyboards, rus, ru_channel, store, admin_msg, ru_tasks, pl, calls, budget>>

\* main.py 197-199 and post_to_telegram.post_to_main_channel 122-187: the post
\* is sent; when the send raises, post_to_main_channel catches it and calls
\* send_error on the loop
HSend(h, ok) ==
  /\ hs[h].pc = "sending"
  /\ LoopFree
  /\ LET id == hs[h].page_id
     IN IF ok
        THEN /\ main_channel' = [main_channel EXCEPT ![id] = Append(@, hs[h].data)]
             /\ hs' = [hs EXCEPT ![h] = [@ EXCEPT !.result = PostUrl(id),
                                                  !.pc = "marking"]]
        ELSE /\ main_channel' = main_channel
             /\ hs' = [hs EXCEPT ![h] = [@ EXCEPT !.pc = "send_failed"]]
  /\ UNCHANGED <<cc, keyboards, rus, ru_channel, store, pending_posts, admin_msg, ru_tasks, pl, calls, budget>>

\* post_to_telegram.py 184-187 and main.py 212-214: send_error has returned,
\* post_to_main_channel returns None and the handler edits in the error text
HSendReported(h, ok) ==
  /\ hs[h].pc = "send_failed"
  /\ Edit(h, "error_posting", ok, IdleHandler)
  /\ UNCHANGED <<cc, keyboards, rus, ru_channel, store, pending_posts, main_channel, ru_tasks, pl, calls, budget>>

\* main.py 201 / 220: save_to_notion.mark_posted / mark_declined in a worker thread;
\* update_page_status swallows a fault and returns False, which the handler ignores.
HMark(h, ok) ==
  /\ hs[h].pc = "marking"
  /\ LoopFree
  /\ store' = IF ok
              THEN update_page_status(hs[h].page_id, StatusFor(hs[h].action), hs[h].result)
              ELSE store
  /\ hs' = [hs EXCEPT ![h] = [@ EXCEPT !.upd = IF ok THEN "ok" ELSE "fault",
                                       !.pc = "marked"]]
  /\ UNCHANGED <<cc, keyboards, rus, ru_channel, pending_posts, admin_msg, main_channel, ru_tasks, pl, calls, budget>>

HResume_ClearsCache(h, ok) ==
  /\ hs[h].pc = "marked"
  /\ LoopFree
  /\ pending_posts' = [i \in {} |-> NoData]
  /\ IF hs[h].action = "approve"
     THEN Edit(h, "approved", ok, [hs[h] EXCEPT !.pc = "replied"])
     ELSE Edit(h, "declined", ok, IdleHandler)
  /\ UNCHANGED <<cc, keyboards, rus, ru_channel, store, main_channel, ru_tasks, pl, calls, budget>>

\* main.py 203-208 / 222-226: drop the cache entry, edit the admin message
HResume(h, ok) ==
  /\ hs[h].pc = "marked"
  /\ LoopFree
  /\ LET id == hs[h].page_id
     IN /\ pending_posts' = [i \in DOMAIN pending_posts \ {id} |-> pending_posts[i]]
        /\ IF hs[h].action = "approve"
           THEN Edit(h, "approved", ok, [hs[h] EXCEPT !.pc = "replied"])
           ELSE Edit(h, "declined", ok, IdleHandler)
  /\ UNCHANGED <<cc, keyboards, rus, ru_channel, store, main_channel, ru_tasks, pl, calls, budget>>

\* main.py 237-240: a new _run_ru_pipeline task, about to call translator.execute
NewRuTask(page_id, article_data) ==
  [pc |-> "translate", page_id |-> page_id, data |-> article_data,
   text |-> [by |-> "none", len |-> 0], review |-> "none"]

\* main.py 211: asyncio.create_task(_run_ru_pipeline(bot, article_data)).  The
\* task is followed while budget.ru lasts.
HSpawn(h) ==
  /\ hs[h].pc = "replied"
  /\ LoopFree
  /\ ru_tasks' = [ru_tasks EXCEPT ![hs[h].page_id] = @ + 1]
  /\ IF budget.ru > 0
     THEN /\ rus' = Append(rus, NewRuTask(hs[h].page_id, hs[h].data))
          /\ budget' = [budget EXCEPT !.ru = @ - 1]
     ELSE UNCHANGED <<keyboards, rus, budget>>
  /\ hs' = [hs EXCEPT ![h] = IdleHandler]
  /\ UNCHANGED <<cc, keyboards, ru_channel, store, pending_posts, admin_msg, main_channel, pl, calls>>

\* main.py 228-234: send_error has returned; a second edit is tried and an
\* exception it raises is discarded
HExcept(h, ok) ==
  /\ hs[h].pc = "crashed"
  /\ ok => admin_msg[hs[h].page_id] # "error_processing"
  /\ admin_msg' = IF ok THEN [admin_msg EXCEPT ![hs[h].page_id] = "error_processing"]
                  ELSE admin_msg
  /\ hs' = [hs EXCEPT ![h] = IdleHandler]
  /\ UNCHANGED <<cc, keyboards, rus, ru_channel, store, pending_posts, main_channel, ru_tasks, pl, calls, budget>>

\* ----------------------------------------------- run_pipeline / process_article
FilterNew(cands, faults) ==
  LET F[i \in 0..Len(cands)] ==
        IF i = 0 THEN <<>>
        ELSE IF url_exists(cands[i], faults[i]) THEN F[i - 1]
        ELSE Append(F[i - 1], cands[i])
  IN F[Len(cands)]

NextArticle_TakesLast(queue) ==
  IF queue = <<>>
  THEN IdlePipeline
  ELSE [IdlePipeline EXCEPT !.pc = "summarize", !.url = queue[Len(queue)],
                            !.queue = SubSeq(queue, 1, Len(queue) - 1),
                            !.start_urls = pl.start_urls]

\* main.py 131-136: the for loop moves to the next article, or the cycle ends
NextArticle(queue) ==
  IF queue = <<>>
  THEN IdlePipeline
  ELSE [IdlePipeline EXCEPT !.pc = "summarize", !.url = Head(queue),
                            !.queue = Tail(queue), !.start_urls = pl.start_urls]

\* the position inside a send_error call that follows a fault of the article
\* at hand (or of the fetch): the article's locals are dead, the loop variable
\* and the rest of the list are kept
Failed(pc) ==
  [IdlePipeline EXCEPT !.pc = pc, !.queue = pl.queue, !.start_urls = pl.start_urls]

PipelineFrame ==
  UNCHANGED <<cc, keyboards, rus, ru_channel, store, pending_posts, admin_msg, main_channel, ru_tasks, hs, calls, budget>>

\* fetch_rss.execute / fetch_websites.execute: the links the feeds offer.  URL
\* values are interchangeable, so feeds are enumerated up to renaming: a
\* candidate is a URL already seen (stored, or earlier in the list) or the
\* least URL not seen yet.
FeedUpToRenaming(cands) ==
  \A i \in DOMAIN cands :
    LET seen == {store[j].url : j \in DOMAIN store} \cup {cands[j] : j \in 1..(i - 1)}
    IN cands[i] \in seen \/ \A u \in Urls \ seen : cands[i] <= u

\* main.py 111-128 with fetch_rss.execute / fetch_websites.execute: every candidate
\* goes through notion_client.url_exists in _normalize_rss_article / _process_website
RunPipeline(cands) ==
  /\ pl.pc = "idle"
  /\ LoopFree
  /\ Len(cands) <= budget.fetches
  /\ Len(cands) <= budget.events
  /\ FeedUpToRenaming(cands)
  /\ budget' = [budget EXCEPT !.fetches = @ - Len(cands), !.events = @ - Len(cands)]
  /\ \E faults \in [DOMAIN cands -> BOOLEAN] :
       LET new == FilterNew(cands, faults)
       IN pl' = IF new = <<>> THEN IdlePipeline
                ELSE [NextArticle(new) EXCEPT
                        !.start_urls = {store[i].url : i \in DOMAIN store}]
  /\ UNCHANGED <<cc, keyboards, rus, ru_channel, store, pending_posts, admin_msg, main_channel, ru_tasks, hs, calls>>

\* what a generation stage can come to: its result, a result that drops the
\* article (SKIP, not relevant, too short), or an exception inside the node
StageOutcomes == {"ok", "reject", "fault"}

\* process_article returns after a stage returned None.  A node that caught an
\* exception has called send_error(node_name = node) in its worker thread; a
\* node that rejected the article has only logged.
Dropped(out, node) ==
  [NextArticle(pl.queue) EXCEPT
     !.drop = [fault |-> out = "fault",
               alert |-> IF out = "fault" THEN node ELSE "none"]]

Summarize_RetriesDropped(out) ==
  /\ pl.pc = "summarize"
  /\ LoopFree
  /\ pl' = IF out = "ok" THEN [pl EXCEPT !.pc = "relevance", !.drop = NoDrop]
           ELSE NextArticle(Append(pl.queue, pl.url))
  /\ PipelineFrame

\* main.py 51-55, summarizer.execute: None on SKIP, and on a fault after
\* send_error (summarizer.py 88-91)
Summarize(out) ==
  /\ pl.pc = "summarize"
  /\ LoopFree
  /\ pl' = IF out = "ok" THEN [pl EXCEPT !.pc = "relevance", !.drop = NoDrop]
           ELSE Dropped(out, "summarizer")
  /\ PipelineFrame

\* main.py 57-61, relevance_checker.execute: None when not relevant, and on a
\* fault after send_error (relevance_checker.py 89-92)
Relevance(out) ==
  /\ pl.pc = "relevance"
  /\ LoopFree
  /\ pl' = IF out = "ok" THEN [pl EXCEPT !.pc = "dedup"]
           ELSE Dropped(out, "relevance_checker")
  /\ PipelineFrame

Layer2Outcomes == {"recent_fault", "no_recent", "gen_fault", "not_dup", "dup"}

DedupPasses_FailClosed(url, l1_fault, l2) ==
  /\ ~url_exists(url, l1_fault)
  /\ l2 \in {"no_recent", "not_dup"}

\* duplicate_control.execute: TRUE when the article is returned, FALSE when None
DedupPasses(url, l1_fault, l2) ==
  /\ ~url_exists(url, l1_fault)
  /\ l2 # "dup"

DedupOutcome(url, l1_fault, l2) ==
  IF url_exists(url, l1_fault) THEN "url_dup" ELSE l2

\* main.py 63-67.  The semantic layer has recent posts to compare against only
\* when the store holds records.
DuplicateControl(l1_fault, l2) ==
  /\ pl.pc = "dedup"
  /\ LoopFree
  /\ l2 \in {"gen_fault", "not_dup", "dup"} => store # <<>>
  /\ pl' = IF DedupPasses(pl.url, l1_fault, l2)
           THEN [pl EXCEPT !.pc = "write", !.dedup = DedupOutcome(pl.url, l1_fault, l2)]
           ELSE [NextArticle(pl.queue) EXCEPT !.dedup = DedupOutcome(pl.url, l1_fault, l2)]
  /\ PipelineFrame

\* main.py 69-73, post_writer.execute: None on a too short output, and on a
\* fault after send_error (post_writer.py 194-197)
WritePost(out) ==
  /\ pl.pc = "write"
  /\ LoopFree
  /\ pl' = IF out = "ok" THEN [pl EXCEPT !.pc = "fix_html", !.dedup = "none"]
           ELSE Dropped(out, "post_writer")
  /\ PipelineFrame

\* main.py 75-76, fix_html.execute
FixHtml(len) ==
  /\ pl.pc = "fix_html"
  /\ LoopFree
  /\ pl' = [pl EXCEPT !.pc = "creative", !.post_len = len]
  /\ PipelineFrame

\* main.py 78-89, find_creative.execute
FindCreative(c) ==
  /\ pl.pc = "creative"
  /\ LoopFree
  /\ pl' = [pl EXCEPT !.pc = "save", !.creative = c]
  /\ PipelineFrame

\* main.py 91-106 and post_to_telegram.send_preview 47-52: create_row returns the
\* page id, or None on a fault, which create_article_page only logs
\* (notion_client.py 128-130); send_preview then returns None at once and
\* process_article returns, both after a log_error only
SaveToNotion(ok) ==
  /\ pl.pc = "save"
  /\ LoopFree
  /\ IF ok
     THEN /\ store' = Append(store, NewRecord(pl.url, pl.creative.creative_url, pl.post_len))
          /\ pl' = [pl EXCEPT !.pc = "preview", !.page_id = Len(store) + 1]
     ELSE /\ store' = store
          /\ pl' = [NextArticle(pl.queue) EXCEPT !.drop = [fault |-> TRUE, alert |-> "none"]]
  /\ UNCHANGED <<cc, keyboards, rus, ru_channel, pending_posts, admin_msg, main_channel, ru_tasks, hs, calls, budget>>

\* send_preview 54-103: the preview message (video / photo / text)
SendPreview(ok) ==
  /\ pl.pc = "preview"
  /\ LoopFree
  /\ pl' = IF ok THEN [pl EXCEPT !.pc = "buttons"] ELSE Failed("preview_failed")
  /\ PipelineFrame

PreviewFaultReported_RemovesRecord ==
  /\ pl.pc = "preview_failed"
  /\ pl' = NextArticle(pl.queue)
  /\ store' = SubSeq(store, 1, Len(store) - 1)
  /\ UNCHANGED <<cc, keyboards, rus, ru_channel, pending_posts, admin_msg, main_channel, ru_tasks, hs, calls, budget>>

\* send_preview 117-120 and main.py 104-106: send_error has returned,
\* send_preview returns None and the loop goes on
PreviewFaultReported ==
  /\ pl.pc = "preview_failed"
  /\ pl' = NextArticle(pl.queue)
  /\ PipelineFrame

SendButtons_StoresEntryAnyway(ok) ==
  /\ pl.pc = "buttons"
  /\ LoopFree
  /\ pending_posts' = [i \in DOMAIN pending_posts \cup {pl.page_id} |->
                         IF i = pl.page_id
                         THEN [post_text |-> pl.post_len,
                               creative_type |-> pl.creative.creative_type,
                               creative_url |-> pl.creative.creative_url]
                         ELSE pending_posts[i]]
  /\ IF ok
     THEN /\ admin_msg' = [admin_msg EXCEPT ![pl.page_id] = "keyboard"]
          /\ keyboards' = Append(keyboards, build_keyboard(pl.page_id))
          /\ pl' = [pl EXCEPT !.pc = "store_pending"]
     ELSE /\ admin_msg' = admin_msg
          /\ keyboards' = keyboards
          /\ pl' = Failed("preview_failed")
  /\ UNCHANGED <<cc, rus, ru_channel, store, main_channel, ru_tasks, hs, calls, budget>>

\* send_preview 105-110: the message carrying the Approve / Decline keyboard
SendButtons(ok) ==
  /\ pl.pc = "buttons"
  /\ LoopFree
  /\ IF ok
     THEN /\ admin_msg' = [admin_msg EXCEPT ![pl.page_id] = "keyboard"]
          /\ keyboards' = Append(keyboards, build_keyboard(pl.page_id))
          /\ pl' = [pl EXCEPT !.pc = "store_pending"]
     ELSE /\ admin_msg' = admin_msg
          /\ keyboards' = keyboards
          /\ pl' = Failed("preview_failed")
  /\ UNCHANGED <<cc, rus, ru_channel, store, pending_posts, main_channel, ru_tasks, hs, calls, budget>>

ArticleData ==
  [post_text |-> pl.post_len,
   creative_type |-> pl.creative.creative_type,
   creative_url |-> pl.creative.creative_url]

StorePending_KeyedByUrl ==
  /\ pl.pc = "store_pending"
  /\ LoopFree
  /\ pending_posts' = [i \in DOMAIN pending_posts \cup {pl.url} |->
                         IF i = pl.url THEN ArticleData ELSE pending_posts[i]]
  /\ pl' = NextArticle(pl.queue)
  /\ UNCHANGED <<cc, keyboards, rus, ru_channel, store, admin_msg, main_channel, ru_tasks, hs, calls, budget>>

\* send_preview 112-115 and main.py 103-108
StorePending ==
  /\ pl.pc = "store_pending"
  /\ LoopFree
  /\ pending_posts' = [i \in DOMAIN pending_posts \cup {pl.page_id} |->
                         IF i = pl.page_id THEN ArticleData ELSE pending_posts[i]]
  /\ pl' = NextArticle(pl.queue)
  /\ UNCHANGED <<cc, keyboards, rus, ru_channel, store, admin_msg, main_channel, ru_tasks, hs, calls, budget>>

\* the stages process_article awaits through asyncio.to_thread
ThreadStages == {"summarize", "relevance", "dedup", "write", "fix_html", "creative", "save"}

\* main.py 132-136: an exception escapes process_article at an awaited stage
\* and is caught around the call; send_error runs on the loop
StageRaises ==
  /\ pl.pc \in ThreadStages
  /\ LoopFree
  /\ pl' = Failed("article_failed")
  /\ PipelineFrame

ArticleFaultReported_AbortsCycle ==
  /\ pl.pc = "article_failed"
  /\ pl' = IdlePipeline
  /\ PipelineFrame

\* main.py 131-136: send_error has returned, the for loop takes the next article
ArticleFaultReported ==
  /\ pl.pc = "article_failed"
  /\ pl' = NextArticle(pl.queue)
  /\ PipelineFrame

\* main.py 115-121 and 138-140: an exception raised while fetching is caught by
\* the outer handler; send_error runs on the loop
FetchRaises ==
  /\ pl.pc = "idle"
  /\ LoopFree
  /\ budget.fetches > 0
  /\ budget.events > 0
  /\ budget' = [budget EXCEPT !.fetches = @ - 1, !.events = @ - 1]
  /\ pl' = Failed("cycle_failed")
  /\ UNCHANGED <<cc, keyboards, rus, ru_channel, store, pending_posts, admin_msg, main_channel, ru_tasks, hs, calls>>

\* main.py 138-142: send_error has returned and run_pipeline returns; the
\* scheduler will call it again
CycleFaultReported ==
  /\ pl.pc = "cycle_failed"
  /\ pl' = IdlePipeline
  /\ PipelineFrame

\* ------------------------------------------------------- _run_ru_pipeline
\* stripped lengths of the text a generation call returns
RuLens == {0, MinRuChars - 1, MinRuChars}

\* A Russian text is known by the node that produced it and its stripped
\* length; NoText stands for None.
NoText == [by |-> "none", len |-> 0]

\* translator.execute: the rewritten text, or None on a fault and on an empty
\* or too short output
translator_execute(fault, len) ==
  IF fault THEN NoText
  ELSE IF len = 0 \/ len < MinRuChars THEN NoText
  ELSE [by |-> "translator", len |-> len]

reviewer_execute_FailsClosed(ru_post_text, fault, len) ==
  IF fault THEN NoText
  ELSE IF len = 0 \/ len < MinRuChars THEN NoText
  ELSE [by |-> "reviewer", len |-> len]

\* translation_reviewer.execute: the polished text, or the text it was given on
\* a fault and on an empty or too short output
reviewer_execute(ru_post_text, fault, len) ==
  IF fault THEN ru_post_text
  ELSE IF len = 0 \/ len < MinRuChars THEN ru_post_text
  ELSE [by |-> "reviewer", len |-> len]

\* what translation_reviewer.execute met
ReviewOutcome(fault, len) ==
  IF fault THEN "fault"
  ELSE IF len = 0 \/ len < MinRuChars THEN "short"
  ELSE "ok"

\* the task list without task t (the coroutine has returned)
Returned(t) == SubSeq(rus, 1, t - 1) \o SubSeq(rus, t + 1, Len(rus))

\* post_to_ru.execute 62-101: the post sent to the RU channel
RuPostOf(task) ==
  [text |-> task.text,
   creative_type |-> task.data.creative_type,
   creative_url |-> task.data.creative_url]

RuFrame ==
  UNCHANGED <<cc, keyboards, store, pending_posts, admin_msg, main_channel, ru_tasks, hs, pl, calls, budget>>

\* main.py 242-246: `if not ru_text: return`
RuTranslate(t, fault, len) ==
  /\ rus[t].pc = "translate"
  /\ LoopFree
  /\ LET ru_text == translator_execute(fault, len)
     IN rus' = IF ru_text.len = 0 THEN Returned(t)
               ELSE [rus EXCEPT ![t] = [@ EXCEPT !.text = ru_text, !.pc = "review"]]
  /\ ru_channel' = ru_channel
  /\ RuFrame

\* main.py 248-249
RuReview(t, fault, len) ==
  /\ rus[t].pc = "review"
  /\ LoopFree
  /\ rus' = [rus EXCEPT ![t] = [@ EXCEPT !.text = reviewer_execute(rus[t].text, fault, len),
                                         !.review = ReviewOutcome(fault, len),
                                         !.pc = "post"]]
  /\ ru_channel' = ru_channel
  /\ RuFrame

\* main.py 251-257 and post_to_ru.execute 54-109: the post is sent to the RU
\* channel; when the send raises, post_to_ru catches it and calls send_error on
\* the loop
RuPost(t, ok) ==
  /\ rus[t].pc = "post"
  /\ LoopFree
  /\ IF ok
     THEN /\ ru_channel' = [ru_channel EXCEPT ![rus[t].page_id] = Append(@, RuPostOf(rus[t]))]
          /\ rus' = Returned(t)
     ELSE /\ ru_channel' = ru_channel
          /\ rus' = [rus EXCEPT ![t] = [@ EXCEPT !.pc = "post_failed"]]
  /\ RuFrame

RuPostReported_TellsReviewer(t) ==
  /\ rus[t].pc = "post_failed"
  /\ rus' = Returned(t)
  /\ ru_channel' = ru_channel
  /\ admin_msg' = [admin_msg EXCEPT ![rus[t].page_id] = "error_posting"]
  /\ UNCHANGED <<cc, keyboards, store, pending_posts, main_channel, ru_tasks, hs, pl, calls, budget>>

\* post_to_ru.py 106-109: send_error has returned, post_to_ru returns False and
\* the task ends
RuPostReported(t) ==
  /\ rus[t].pc = "post_failed"
  /\ rus' = Returned(t)
  /\ ru_channel' = ru_channel
  /\ RuFrame

\* main.py 259-261: an exception escapes an awaited stage of the task and is
\* caught; send_error runs on the loop
RuRaises(t) ==
  /\ rus[t].pc \in {"translate", "review"}
  /\ LoopFree
  /\ rus' = [rus EXCEPT ![t] = [@ EXCEPT !.pc = "ru_failed"]]
  /\ ru_channel' = ru_channel
  /\ RuFrame

\* main.py 259-261: send_error has returned and the task ends
RuFaultReported(t) ==
  /\ rus[t].pc = "ru_failed"
  /\ rus' = Returned(t)
  /\ ru_channel' = ru_channel
  /\ RuFrame

\* --------------------------------------------- openrouter_client.chat_completion
\* What one pass through the try block (openrouter_client.py 61-85) can come to:
\*   ok            a well-formed response (and valid JSON content in json_mode)
\*   http          resp.raise_for_status() raises HTTPError
\*   timeout       requests.post raises Timeout / ConnectionError
\*   bad_body      resp.json() raises: the body is not JSON
\*   bad_shape     data["choices"][0]["message"]["content"] raises
\*   null_content  the content is null: returned as it is, or None.strip() raises
\*                 in json_mode
\*   bad_fence     json_mode: cleaned.index("\n") raises ValueError
\*   bad_content   json_mode: json.loads(cleaned) raises json.JSONDecodeError
AttemptOutcomes(json_mode) ==
  {"ok", "http", "timeout", "bad_body", "bad_shape", "null_content"}
    \cup (IF json_mode THEN {"bad_fence", "bad_content"} ELSE {})

\* the attempt reaches a return statement (openrouter_client.py 83, 85)
Succeeds(out, json_mode) == out = "ok" \/ (out = "null_content" /\ ~json_mode)

\* the local `content` once the try block is left: line 72 binds it in the
\* attempts that get that far
ContentAfter(out, before) ==
  IF out \in {"ok", "bad_fence", "bad_content"} THEN "str"
  ELSE IF out = "null_content" THEN "none"
  ELSE before

\* the except clause that takes the exception (openrouter_client.py 87, 93, 99).
\* What resp.json() raises derives from the JSONDecodeError of the json module
\* requests was built with: the standard one, or simplejson's when installed.
Handler(out, lib) ==
  IF out = "http" THEN "HTTPError"
  ELSE IF out = "bad_content" \/ (out = "bad_body" /\ lib = "json") THEN "JSONDecodeError"
  ELSE "Exception"

\* openrouter_client.py 94: the JSONDecodeError clause formats content[:500]
\* before it decides on a retry; that raises when `content` is unbound or None
HandlerRaises(handler, content) ==
  IF handler = "JSONDecodeError" /\ content = "unbound" THEN "UnboundLocalError"
  ELSE IF handler = "JSONDecodeError" /\ content = "none" THEN "TypeError"
  ELSE "none"

ChatFrame ==
  UNCHANGED <<store, pending_posts, admin_msg, keyboards, main_channel, ru_tasks, rus,
              ru_channel, hs, pl, calls>>

\* openrouter_client.py 18-60: a node calls chat_completion in its worker thread
ChatCall(json_mode, lib) ==
  /\ cc.pc \in {"idle", "returned", "raised"}
  /\ budget.chats > 0
  /\ budget' = [budget EXCEPT !.chats = @ - 1]
  /\ cc' = [IdleChat EXCEPT !.pc = "request", !.json_mode = json_mode, !.lib = lib,
                            !.attempt = 1]
  /\ ChatFrame

\* openrouter_client.py 61-104: one pass of the for loop, up to the return, the
\* raise or the time.sleep
ChatAttempt(out) ==
  /\ cc.pc = "request"
  /\ out \in AttemptOutcomes(cc.json_mode)
  /\ LET content == ContentAfter(out, cc.content)
         handler == Handler(out, cc.lib)
         tried == Append(cc.tried, out)
     IN cc' = IF Succeeds(out, cc.json_mode)
              THEN [cc EXCEPT !.pc = "returned", !.content = content, !.tried = tried]
              ELSE IF HandlerRaises(handler, content) # "none"
              THEN [cc EXCEPT !.pc = "raised", !.content = content, !.tried = tried,
                              !.error = HandlerRaises(handler, content)]
              ELSE IF cc.attempt < MAX_RETRIES
              THEN [cc EXCEPT !.pc = "sleeping", !.content = content, !.tried = tried]
              ELSE [cc EXCEPT !.pc = "raised", !.content = content, !.tried = tried,
                              !.error = out]
  /\ budget' = budget
  /\ ChatFrame

\* openrouter_client.py 90, 96, 102 and 60: time.sleep returns and the loop
\* goes to the next attempt
ChatWake ==
  /\ cc.pc = "sleeping"
  /\ cc' = [cc EXCEPT !.pc = "request", !.attempt = @ + 1]
  /\ budget' = budget
  /\ ChatFrame

ChatNext ==
  \/ \E json_mode \in BOOLEAN, lib \in {"json", "simplejson"} : ChatCall(json_mode, lib)
  \/ \E out \in AttemptOutcomes(TRUE) : ChatAttempt(out)
  \/ ChatWake

InitChat ==
  Boot([decisions |-> 0, restarts |-> 0, fetches |-> 0, events |-> 0, ru |-> 0,
        chats |-> MaxCalls])

\* One generation call of a node, followed through its attempts.
SpecChat == InitChat /\ [][ChatNext]_vars

\* ---------------------------------------------------------------- process
\* main.py 267-302 after the process was stopped: pending_posts starts empty
\* (post_to_telegram.py 23), no coroutine survives, Notion and Telegram keep
\* their contents.
Restart ==
  /\ budget.restarts > 0
  /\ budget.events > 0
  /\ \/ DOMAIN pending_posts # {}
     \/ pl.pc # "idle"
     \/ \E h \in Handlers : Active(h)
     \/ rus # <<>>
  /\ budget' = [budget EXCEPT !.restarts = @ - 1, !.events = @ - 1]
  /\ pending_posts' = [i \in {} |-> NoData]
  /\ hs' = [h \in Handlers |-> IdleHandler]
  /\ pl' = IdlePipeline
  /\ rus' = <<>>
  /\ calls' = [i \in PageIds |-> IF Busy(i) THEN "overlapped" ELSE calls[i]]
  /\ UNCHANGED <<cc, keyboards, ru_channel, store, admin_msg, main_channel, ru_tasks>>

Candidates ==
  UNION { [1..n -> Urls] : n \in 0..MaxCandidates }

HandlerNext ==
  \/ \E h \in Handlers : HLookup(h)
  \/ \E h \in Handlers, fault \in BOOLEAN, ok \in BOOLEAN : HRecover(h, fault, ok)
  \/ \E h \in Handlers, ok \in BOOLEAN : HSend(h, ok)
  \/ \E h \in Handlers, ok \in BOOLEAN : HSendReported(h, ok)
  \/ \E h \in Handlers, ok \in BOOLEAN : HMark(h, ok)
  \/ \E h \in Handlers, ok \in BOOLEAN : HResume(h, ok)
  \/ \E h \in Handlers : HSpawn(h)
  \/ \E h \in Handlers, ok \in BOOLEAN : HExcept(h, ok)
  \/ Restart

\* decision events may be taken up while earlier ones are still being handled
DecideNext ==
  \/ \E h \in Handlers, a \in {"approve", "decline"}, id \in PageIds, acked \in BOOLEAN :
       HStart(h, a, id, acked)
  \/ HandlerNext

\* decision events are taken up one at a time
SequentialDecideNext ==
  \/ \E h \in Handlers, a \in {"approve", "decline"}, id \in PageIds, acked \in BOOLEAN :
       HStartSequential(h, a, id, acked)
  \/ HandlerNext

PipelineNext ==
  \/ \E cands \in Candidates : RunPipeline(cands)
  \/ \E out \in StageOutcomes : Summarize(out)
  \/ \E out \in StageOutcomes : Relevance(out)
  \/ \E f \in BOOLEAN, l2 \in Layer2Outcomes : DuplicateControl(f, l2)
  \/ \E out \in StageOutcomes : WritePost(out)
  \/ \E len \in PostLens : FixHtml(len)
  \/ \E c \in Creatives : FindCreative(c)
  \/ \E ok \in BOOLEAN : SaveToNotion(ok)
  \/ \E ok \in BOOLEAN : SendPreview(ok)
  \/ \E ok \in BOOLEAN : SendButtons(ok)
  \/ StorePending
  \/ PreviewFaultReported
  \/ StageRaises
  \/ ArticleFaultReported
  \/ FetchRaises
  \/ CycleFaultReported

Next == DecideNext \/ PipelineNext

SequentialNext == SequentialDecideNext \/ PipelineNext

\* The scheduler, the pipeline and the decision handler of one process.
Spec == Init /\ [][Next]_vars

\* The same process with its decision events handled one at a time.
SpecSequential == Init /\ [][SequentialNext]_vars

\* The pipeline alone, over several cycles and candidates.
InitPipeline ==
  Boot([decisions |-> 0, restarts |-> 0, fetches |-> MaxCandidates,
        events |-> MaxCandidates, ru |-> 0, chats |-> 0])

SpecPipeline == InitPipeline /\ [][PipelineNext]_vars

RuNext ==
  \/ \E t \in DOMAIN rus, fault \in BOOLEAN, len \in RuLens : RuTranslate(t, fault, len)
  \/ \E t \in DOMAIN rus, fault \in BOOLEAN, len \in RuLens : RuReview(t, fault, len)
  \/ \E t \in DOMAIN rus, ok \in BOOLEAN : RuPost(t, ok)
  \/ \E t \in DOMAIN rus : RuPostReported(t)
  \/ \E t \in DOMAIN rus : RuRaises(t)
  \/ \E t \in DOMAIN rus : RuFaultReported(t)

\* The process with the secondary pipelines of its approved articles followed.
InitRu ==
  Boot([decisions |-> MaxDecisions, restarts |-> MaxRestarts, fetches |-> Submissions,
        events |-> RuEvents, ru |-> MaxRuRuns, chats |-> 0])

RuProcessNext == SequentialNext \/ RuNext

SpecRu == InitRu /\ [][RuProcessNext]_vars

\* A cycle over an empty database that fetched two articles: the first went
\* through send_preview and awaits its decision; the second has its post and
\* its creative and is about to be saved (main.py 91).
InitGate ==
  \E c1 \in Creatives, c2 \in Creatives, len \in PostLens :
    /\ store = <<NewRecord(1, c1.creative_url, len)>>
    /\ pending_posts = [i \in {1} |-> [post_text |-> len,
                                        creative_type |-> c1.creative_type,
                                        creative_url |-> c1.creative_url]]
    /\ admin_msg = [i \in PageIds |-> IF i = 1 THEN "keyboard" ELSE "none"]
    /\ keyboards = <<build_keyboard(1)>>
    /\ main_channel = [i \in PageIds |-> <<>>]
    /\ ru_tasks = [i \in PageIds |-> 0]
    /\ rus = <<>>
    /\ ru_channel = [i \in PageIds |-> <<>>]
    /\ hs = [h \in Handlers |-> IdleHandler]
    /\ pl = [IdlePipeline EXCEPT !.pc = "save", !.url = 2, !.post_len = len, !.creative = c2]
    /\ calls = [i \in PageIds |-> "none"]
    /\ cc = IdleChat
    /\ budget = [decisions |-> MaxDecisions, restarts |-> MaxRestarts, fetches |-> 0,
                 events |-> MaxEvents, ru |-> 0, chats |-> 0]

\* the approval gate: the submission of an article (create_row, send_preview)
\* and the decisions, taken up one at a time
GateNext ==
  \/ SequentialDecideNext
  \/ \E ok \in BOOLEAN : SaveToNotion(ok)
  \/ \E ok \in BOOLEAN : SendPreview(ok)
  \/ \E ok \in BOOLEAN : SendButtons(ok)
  \/ StorePending
  \/ PreviewFaultReported

\* Submission and decisions with two articles at hand.
SpecGate == InitGate /\ [][GateNext]_vars

\* creative references a record can carry: whatever URL find_creative.execute
\* took from the parser's video list or from the image finder
StoredRefs ==
  { Mp4Url,
    <<"V", ".", "M", "P", "4">>,
    <<"c", ".", "m", "o", "v">>,
    <<"c", ".", "W", "e", "b", "M">>,
    <<"p", ".", "j", "p", "g">>,
    <<"v", ".", "m", "p", "4", "?">>,
    <<"m", "p", "4">>,
    <<"n", "o", "n", "e", ".", "m", "p", "4">>,
    <<"N", "O", "N", "E">> }

\* main.py 267-302 over a database that holds one article sent for approval by
\* an earlier run of the process: its Approve / Decline message is in the admin
\* channel, pending_posts is empty and no cycle is started
InitRecovery ==
  \E r \in StoredRefs \cup {NoneStr}, len \in PostLens :
    /\ store = <<NewRecord(1, r, len)>>
    /\ pending_posts = [i \in {} |-> NoData]
    /\ admin_msg = [i \in PageIds |-> IF i = 1 THEN "keyboard" ELSE "none"]
    /\ keyboards = <<build_keyboard(1)>>
    /\ main_channel = [i \in PageIds |-> <<>>]
    /\ ru_tasks = [i \in PageIds |-> 0]
    /\ rus = <<>>
    /\ ru_channel = [i \in PageIds |-> <<>>]
    /\ hs = [h \in Handlers |-> IdleHandler]
    /\ pl = IdlePipeline
    /\ calls = [i \in PageIds |-> "none"]
    /\ cc = IdleChat
    /\ budget = [decisions |-> MaxDecisions, restarts |-> MaxRestarts, fetches |-> 0,
                 events |-> MaxEvents, ru |-> 0, chats |-> 0]

\* The decision handler of a process started over an existing database.
SpecRecovery == InitRecovery /\ [][SequentialDecideNext]_vars

TypeOK ==
  /\ Len(store) <= MaxCandidates
  /\ DOMAIN pending_posts \subseteq DOMAIN store
  /\ \A h \in Handlers :
       (Active(h) /\ hs[h].action # "malformed") => hs[h].page_id \in DOMAIN store

\* ------------------------------------------------------------------ claims
Published(id) == Len(main_channel[id])

NoRestartStep == budget'.restarts = budget.restarts

StoredCreative(r) == IF r.creative_url = <<>> THEN NoneStr ELSE r.creative_url

\* C1: for every page id, decide calls made one after another with the same
\* outcome (approve twice, or decline twice) publish to the main channel at
\* most once in total, whatever the durable-store calls in between return.
C1_SequentialSameOutcomePublishesOnce ==
  \A id \in PageIds :
    calls[id] \in {"approve", "decline"} => Published(id) <= 1

C4_RecoveryStep(h) ==
  LET id == hs[h].page_id
      r == store[id]
  IN /\ (hs[h].pc = "fetching" /\ hs'[h] # hs[h] /\ NoRestartStep
           /\ r.status = SentForApproval)
        => \/ hs'[h].pc = "idle" /\ admin_msg'[id] = "not_found"
           \/ hs'[h].pc = "crashed"
           \/ /\ hs'[h].recovered
              /\ hs'[h].pc = IF hs[h].action = "approve" THEN "sending" ELSE "marking"
              /\ hs'[h].data.post_text = r.post_text
              /\ hs'[h].data.creative_url = StoredCreative(r)
     /\ (hs[h].recovered /\ hs[h].pc = "sending" /\ hs'[h].pc = "marking")
        => /\ Published(id)' = Published(id) + 1
           /\ main_channel'[id][Published(id)'].post_text = r.post_text
           /\ main_channel'[id][Published(id)'].creative_url = StoredCreative(r)
     /\ (hs[h].recovered /\ hs[h].pc = "marking" /\ hs'[h].upd = "ok")
        => /\ store'[id].status = StatusFor(hs[h].action)
           /\ hs[h].action = "approve" => store'[id].post_url = hs[h].result
     /\ (hs[h].recovered /\ hs[h].action = "decline" /\ hs'[h] # hs[h])
        => main_channel' = main_channel /\ ru_tasks' = ru_tasks

C4_StatelessRecovery == [][\A h \in Handlers : C4_RecoveryStep(h)]_vars

\* C4 witness: an approve resolved through the recovery path has published the
\* stored post and set the record to Posted.
C4_Witness ==
  \E h \in Handlers :
    /\ hs[h].recovered /\ hs[h].action = "approve" /\ hs[h].pc = "marked"
    /\ hs[h].upd = "ok"
    /\ hs[h].page_id \notin DOMAIN pending_posts
    /\ store[hs[h].page_id].status = Posted
    /\ store[hs[h].page_id].creative_url # <<>>
    /\ Published(hs[h].page_id) = 1
    /\ main_channel[hs[h].page_id][1].creative_url = store[hs[h].page_id].creative_url

C6_PublishedImpliesPosted ==
  \A id \in DOMAIN store :
    (admin_msg[id] = "approved" /\ ~Busy(id))
    => store[id].status = Posted /\ store[id].post_url # 0

\* C7: when the main-channel send of an approve fails, the handler changes
\* neither the record nor pending_posts, publishes nothing and starts no
\* secondary pipeline; its next step ends it (no retry) with the error text
\* edited into the decision message, or passes to the handler's except block
\* when that edit raises.
C7_FailedSendLeavesPending ==
  [][\A h \in Handlers :
       ((hs[h].pc = "sending" /\ hs'[h].pc = "send_failed") \/ hs[h].pc = "send_failed")
       /\ hs'[h] # hs[h] /\ NoRestartStep
       => /\ store' = store
          /\ pending_posts' = pending_posts
          /\ main_channel' = main_channel
          /\ ru_tasks' = ru_tasks
          /\ hs[h].pc = "send_failed" =>
               \/ hs'[h].pc = "idle" /\ admin_msg'[hs[h].page_id] = "error_posting"
               \/ hs'[h].pc = "crashed" /\ admin_msg' = admin_msg]_vars

\* C7 witness: after an approve that ended with the send error, a later approve
\* of the same id has published while the record was still 'Sent for approval'.
C7_Witness ==
  \E h \in Handlers :
    /\ hs[h].pc = "marking" /\ hs[h].action = "approve"
    /\ calls[hs[h].page_id] = "approve"
    /\ admin_msg[hs[h].page_id] = "error_posting"
    /\ store[hs[h].page_id].status = SentForApproval
    /\ Published(hs[h].page_id) = 1

\* C8: an article whose URL was in the store when the cycle started gets no new
\* record and no approval preview in that cycle.
C8_StoredUrlNeverResubmitted ==
  pl.pc \in {"preview", "buttons", "store_pending"} => pl.url \notin pl.start_urls

\* C9: no two records carry the same URL.
C9_UrlsAreUnique ==
  \A i, j \in DOMAIN store : store[i].url = store[j].url => i = j

\* C10: when the semantic layer of the duplicate filter faults (recent-window
\* query or generation call), the same article goes on to the post writer.
C10_Layer2FailsOpen ==
  [][(pl.pc = "dedup" /\ pl'.dedup \in {"recent_fault", "gen_fault"})
       => /\ pl'.pc = "write"
          /\ pl'.url = pl.url
          /\ pl'.queue = pl.queue]_vars

\* C10 witness: the generation call of layer 2 faulted and the article is at
\* the post writer.
C10_Witness ==
  /\ pl.pc = "write"
  /\ pl.dedup = "gen_fault"
  /\ store # <<>>

\* main.py 39-108: the awaits of process_article and send_preview, in program order
StageOrder ==
  <<"summarize", "relevance", "dedup", "write", "fix_html", "creative", "save",
    "preview", "buttons", "store_pending">>

StageIndex(pc) == CHOOSE i \in DOMAIN StageOrder : StageOrder[i] = pc

IsStage(pc) == \E i \in DOMAIN StageOrder : StageOrder[i] = pc

\* main.py 131: the for loop takes the next element of the list
StartsNextArticle ==
  IF pl.queue = <<>>
  THEN pl'.pc = "idle"
  ELSE pl'.pc = "summarize" /\ pl'.url = Head(pl.queue) /\ pl'.queue = Tail(pl.queue)

\* C11: within a cycle each article goes through summarize, relevance filter,
\* duplicate filter, post writer, fix_html, find_creative, save to Notion and
\* send_preview in that order, a stage being entered only from the stage before
\* it with the same article; when a stage drops the article, or its processing
\* fails, the next step starts the next article of the list (or ends the
\* cycle), so the dropped article is not taken up again.
C11_StagesRunInOrder ==
  [][pl' # pl =>
       /\ IsStage(pl.pc) =>
            \/ /\ StageIndex(pl.pc) < Len(StageOrder)
               /\ pl'.pc = StageOrder[StageIndex(pl.pc) + 1]
               /\ pl'.url = pl.url
               /\ pl'.queue = pl.queue
            \/ pl'.pc \in {"article_failed", "preview_failed"} /\ pl'.queue = pl.queue
            \/ StartsNextArticle
       /\ pl.pc \in {"article_failed", "preview_failed"} => StartsNextArticle
       /\ pl.pc \in {"idle", "cycle_failed"} => pl'.pc \in {"idle", "summarize", "cycle_failed"}]_vars

\* C11 witness: of the two articles of one cycle the first was dropped and the
\* second has gone through every stage.
C11_Witness ==
  /\ pl.pc = "store_pending"
  /\ pl.url = 2
  /\ pl.queue = <<>>
  /\ Len(store) = 1

\* C12: an exception raised while one article is processed is caught around
\* that article: the rest of the list is kept and the next step starts its next
\* element; an exception raised while fetching ends that run of run_pipeline
\* only: the pipeline returns to idle, from where the scheduler starts the next
\* cycle; neither touches the store, pending_posts, the messages or the
\* decision handlers.
C12_FaultsAreContained ==
  [][pl' # pl =>
       /\ pl'.pc = "article_failed" =>
            /\ pl.pc \in ThreadStages
            /\ pl'.queue = pl.queue
       /\ pl.pc = "article_failed" => StartsNextArticle
       /\ pl'.pc = "cycle_failed" => pl.pc = "idle"
       /\ pl.pc = "cycle_failed" => pl' = IdlePipeline
       /\ {pl.pc, pl'.pc} \cap {"article_failed", "cycle_failed"} # {} =>
            UNCHANGED <<store, pending_posts, admin_msg, main_channel, ru_tasks, hs>>]_vars

\* C12 witness: an exception of an article was caught while the list still
\* held another article.
C12_Witness ==
  /\ pl.pc = "article_failed"
  /\ pl.queue # <<>>

\* C13: no coroutine is ever inside a blocking call made directly on the event
\* loop, so the loop can always take up a decision event and advance every
\* other coroutine, also while a cycle is under way.
C13_NoBlockingCallOnLoop ==
  /\ pl.pc \notin PipelineBlocking
  /\ \A h \in Handlers : hs[h].pc \notin HandlerBlocking

\* C14: every decision event starts an invocation of handle_approval that goes
\* on past the acknowledgement, and every invocation ends with an outcome text
\* edited into the decision message: the step that ends the handler, or the one
\* that shows "Approved & Posted" before the secondary pipeline is started,
\* changes the text of the decision message.
C14_ReviewerAlwaysGetsOutcome ==
  [][/\ budget'.decisions < budget.decisions =>
          \E h \in Handlers : hs[h].pc = "idle" /\ hs'[h].pc = "acked"
     /\ \A h \in Handlers :
          (hs[h].pc \notin {"idle", "replied"} /\ hs'[h].pc \in {"idle", "replied"}
             /\ NoRestartStep)
          => admin_msg'[hs[h].page_id] # admin_msg[hs[h].page_id]]_vars

\* C15: when the durable status update of an approve or a decline did not take
\* effect, the handler's next step does not show the reviewer a success text
\* ("Approved & Posted" / "Declined") but enters the error path, where the
\* operator is notified and an error text is shown.
C15_FailedUpdateIsReported ==
  [][\A h \in Handlers :
       (hs[h].pc = "marked" /\ hs[h].upd = "fault" /\ hs'[h] # hs[h] /\ NoRestartStep)
       => /\ hs'[h].pc = "crashed"
          /\ admin_msg'[hs[h].page_id] # admin_msg[hs[h].page_id]
               => admin_msg'[hs[h].page_id] \notin {"approved", "declined"}]_vars

\* C16: a decline never publishes to the main channel and never starts a
\* secondary pipeline; on a record at 'Sent for approval' it goes from the
\* lookup to the status update (directly on a cache hit, through the Notion
\* read otherwise), the update that goes through writes Declined, and the step
\* after the update leaves no pending_posts entry for the id.
C16_DeclineStep(h) ==
  LET id == hs[h].page_id
  IN (hs[h].action = "decline" /\ hs'[h] # hs[h] /\ NoRestartStep)
     => /\ main_channel' = main_channel
        /\ ru_tasks' = ru_tasks
        /\ hs'[h].pc \notin {"sending", "send_failed", "replied"}
        /\ (store[id].status = SentForApproval /\ hs[h].pc = "acked")
             => hs'[h].pc = IF id \in DOMAIN pending_posts THEN "marking" ELSE "fetching"
        /\ (store[id].status = SentForApproval /\ hs[h].pc = "marking" /\ hs'[h].upd = "ok")
             => store'[id] = [store[id] EXCEPT !.status = Declined]
        /\ hs[h].pc = "marked" => id \notin DOMAIN pending_posts'

C16_DeclineOnlyUpdatesStatus == [][\A h \in Handlers : C16_DeclineStep(h)]_vars

\* C16 witness: a decline that found the cache entry has written Declined to a
\* record that was at 'Sent for approval'; nothing was published.
C16_Witness ==
  \E h \in Handlers :
    /\ hs[h].action = "decline" /\ hs[h].pc = "marked" /\ hs[h].upd = "ok"
    /\ ~hs[h].recovered
    /\ hs[h].seen = SentForApproval
    /\ hs[h].page_id \in DOMAIN pending_posts
    /\ store[hs[h].page_id].status = Declined
    /\ Published(hs[h].page_id) = 0
    /\ ru_tasks[hs[h].page_id] = 0

\* C17: a secondary pipeline is created only by a handler that has already
\* awaited the status update and shown "Approved & Posted", and that handler
\* ends in the same step, the task starting at its first stage; no step of a
\* secondary pipeline, whatever its outcome, changes the store, pending_posts,
\* the decision messages or a handler.
C17_SecondaryPipelineIsDetached ==
  [][NoRestartStep =>
       /\ \A id \in PageIds :
            ru_tasks'[id] > ru_tasks[id] =>
              /\ \E h \in Handlers :
                   /\ hs[h].page_id = id /\ hs[h].pc = "replied" /\ hs'[h].pc = "idle"
                   /\ hs[h].upd # "no"
                   /\ hs[h].upd = "ok" => store[id].status = Posted
              /\ admin_msg[id] = "approved"
              /\ Len(rus') > Len(rus) => rus'[Len(rus')].pc = "translate"
       /\ (ru_channel' # ru_channel \/ (rus' # rus /\ Len(rus') <= Len(rus)))
            => UNCHANGED <<store, pending_posts, admin_msg, hs>>]_vars

\* C17 witness: the RU post of an approved article has failed while its decision
\* message shows "Approved & Posted" and its record is Posted.
C17_Witness ==
  \E t \in DOMAIN rus :
    /\ rus[t].pc = "post_failed"
    /\ admin_msg[rus[t].page_id] = "approved"
    /\ store[rus[t].page_id].status = Posted
    /\ \A h \in Handlers : ~Active(h)

\* C18: the secondary pipeline posts to the RU channel only the text of a task
\* that has passed the rewrite, and a text of at least MinRuChars characters: a
\* task whose rewrite failed has returned without a post; a review that faults
\* or returns a too short text passes the rewritten text on unchanged, and the
\* task goes on to post it.
C18_RewriteGatesReviewDoesNot ==
  /\ [](\A t \in DOMAIN rus :
          rus[t].pc \in {"review", "post", "post_failed"} =>
            /\ rus[t].text.len >= MinRuChars
            /\ rus[t].text.by = IF rus[t].pc = "review" \/ rus[t].review \in {"fault", "short"}
                                THEN "translator" ELSE "reviewer")
  /\ [][NoRestartStep =>
          /\ ru_channel' # ru_channel =>
               \E t \in DOMAIN rus :
                 /\ rus[t].pc = "post"
                 /\ rus' = Returned(t)
                 /\ ru_channel' = [ru_channel EXCEPT ![rus[t].page_id] =
                                     Append(@, RuPostOf(rus[t]))]
          /\ \A t \in DOMAIN rus :
               (rus[t].pc = "review" /\ rus' # rus) =>
                 /\ Len(rus') >= Len(rus)
                 /\ rus'[t].pc \in {"post", "ru_failed"}
                 /\ rus'[t].review \in {"fault", "short"} =>
                      rus'[t].pc = "post" /\ rus'[t].text = rus[t].text]_vars

\* C18 witness: the RU channel carries a text that came from the translator
\* and was not replaced by the reviewer.
C18_Witness ==
  \E id \in PageIds :
    /\ ru_channel[id] # <<>>
    /\ ru_channel[id][1].text.by = "translator"

\* C19: a secondary pipeline is started for an article only by an approve that
\* found its record at 'Sent for approval' and has published it to the main
\* channel; a decline, a failed approve, a decision on a Posted or Declined
\* record and a failed recovery start none.
C19_SecondaryOnlyAfterFreshApprove ==
  /\ [](\A id \in PageIds : ru_tasks[id] > 0 => Published(id) > 0)
  /\ [][\A id \in PageIds :
          ru_tasks'[id] > ru_tasks[id] =>
            \E h \in Handlers :
              /\ hs[h].page_id = id
              /\ hs[h].action = "approve"
              /\ hs[h].result # 0
              /\ hs[h].seen = SentForApproval]_vars

\* C20: while an article is in send_preview, the id it carries (the callback
\* id) is the key of the record create_row made for it; the keyboard delivered
\* for it has that id in both buttons, and the pending_posts entry stored for it
\* is keyed by it.
C20_CorrelationIdIsPrimaryKey ==
  /\ [](pl.pc \in {"preview", "buttons", "store_pending"} =>
          /\ pl.page_id = Len(store)
          /\ store[pl.page_id].url = pl.url)
  /\ [][/\ (keyboards' # keyboards) =>
             (/\ pl.pc = "buttons"
              /\ keyboards' = Append(keyboards,
                    [approve |-> <<"approve", Len(store)>>,
                     decline |-> <<"decline", Len(store)>>]))
        /\ (pl.pc = "store_pending" /\ pl' # pl) =>
             (/\ DOMAIN pending_posts' = DOMAIN pending_posts \cup {Len(store)}
              /\ pending_posts'[Len(store)] = ArticleData)]_vars

\* C20 witness: an entry is pending under the key of a record whose key differs
\* from its position in the feed, and a keyboard with that key was delivered.
C20_Witness ==
  \E id \in DOMAIN pending_posts :
    /\ store[id].url # id
    /\ \E k \in DOMAIN keyboards : keyboards[k] = build_keyboard(id)

\* send_preview 117-120 seen from the store: record i was created, its article
\* has left send_preview, and no Approve / Decline message was delivered for it
PreviewFailed(i) == admin_msg[i] = "none" /\ pl.page_id # i

\* C21: when send_preview fails after create_row, the record stays at 'Sent for
\* approval'; the step after the failure starts the next article of the list
\* (the failed one is not taken up again in this cycle); and no later cycle
\* takes that article to send_preview again.
C21_FailedPreviewIsNotRetried ==
  /\ [](\A i \in DOMAIN store : PreviewFailed(i) => store[i].status = SentForApproval)
  /\ [][(pl.pc = "preview_failed" /\ pl' # pl) => (StartsNextArticle /\ store' = store)]_vars
  /\ [][\A i \in DOMAIN store :
          (PreviewFailed(i) /\ store[i].url \in pl.start_urls /\ pl.pc = "save")
          => ~(pl'.pc = "preview" /\ pl'.url = store[i].url)]_vars

\* s is t with some elements left out, the others in their order
InOrder(s, t) ==
  LET F[i \in 0..Len(s), j \in 0..Len(t)] ==
        IF i = 0 THEN TRUE
        ELSE IF j = 0 THEN FALSE
        ELSE F[i, j - 1] \/ (s[i] = t[j] /\ F[i - 1, j - 1])
  IN F[Len(s), Len(t)]

\* the positions at which process_article returns (main.py 55, 61, 67, 73, 98,
\* 106, 108) or at which its exception has been reported (main.py 136)
ReturnPoints ==
  {"summarize", "relevance", "dedup", "write", "save", "store_pending",
   "preview_failed", "article_failed"}

\* C22: the list a cycle works on holds the entries the feeds offered, without
\* those found in the store, in the order the feeds gave them; the cycle takes
\* the articles from the front of that list one at a time, the list changing in
\* no other way, and an article is started only by the step in which
\* process_article of the previous one returns (or its exception has been
\* reported).
C22_ArticlesInEmissionOrder ==
  /\ [](pl.pc = "idle" =>
          \A n \in 0..Min(budget.fetches, budget.events) :
            \A cands \in [1..n -> Urls] :
              FeedUpToRenaming(cands) =>
                \A faults \in [DOMAIN cands -> BOOLEAN] :
                  LET new == FilterNew(cands, faults)
                  IN /\ InOrder(new, cands)
                     /\ \A i \in DOMAIN cands :
                          ~url_exists(cands[i], faults[i]) =>
                            \E j \in DOMAIN new : new[j] = cands[i])
  /\ [][(pl.pc # "idle" /\ pl' # pl) =>
          /\ pl'.queue # pl.queue =>
               /\ pl.queue # <<>>
               /\ pl'.queue = Tail(pl.queue)
               /\ pl'.url = Head(pl.queue)
               /\ pl'.pc = "summarize"
          /\ pl'.pc = "summarize" =>
               /\ pl.pc \in ReturnPoints
               /\ pl.queue # <<>>
               /\ pl'.url = Head(pl.queue)
               /\ pl'.page_id = 0]_vars

\* C22 witness: of a list of three the first article was saved, the second is
\* being processed and the third is still waiting.
C22_Witness ==
  /\ pl.pc = "relevance"
  /\ pl.url = 2
  /\ pl.queue = <<1>>
  /\ Len(store) = 1
  /\ store[1].url = 1

\* C23: for every id with a pending_posts entry, the article data that the
\* recovery path builds from the durable record (post text, creative type,
\* creative reference) equals the cached entry, so that the code shared by both
\* paths (main.py 192-226) publishes the same post, writes the same status and
\* hands the same data to the secondary pipeline.
C23_RecoveredEqualsCached ==
  \A id \in DOMAIN pending_posts :
    Recovered(get_article_data(id)) = pending_posts[id]

\* the reference ends in suf when letter case is ignored
EndsInIgnoringCase(ref, suf) ==
  /\ Len(ref) >= Len(suf)
  /\ \A k \in 1..Len(suf) :
       LowerChar(ref[Len(ref) - Len(suf) + k]) = LowerChar(suf[k])

\* the classification of C24, written from the claim
ClassOfReference(ref) ==
  IF ref = <<>> \/ ref = NoneStr THEN "none"
  ELSE IF \E suf \in VideoExts : EndsInIgnoringCase(ref, suf) THEN "video"
  ELSE "image"

\* C24: the creative type a recovering handler goes on with depends on nothing
\* but the reference read from the record (the sentinel "none" when the record
\* has no creative): video when it ends, in any letter case, in .mp4, .mov or
\* .webm, image for any other reference that is neither empty nor "none", none
\* otherwise.
C24_InferenceFollowsReference ==
  /\ [](InferCreativeType(<<>>) = "none" /\ InferCreativeType(NoneStr) = "none")
  /\ [][\A h \in Handlers :
          (hs[h].pc = "fetching" /\ hs'[h].recovered) =>
            /\ hs'[h].data.creative_url = StoredCreative(store[hs[h].page_id])
            /\ hs'[h].data.creative_type = ClassOfReference(hs'[h].data.creative_url)]_vars

\* C24 witness: a handler has recovered a reference ending in upper-case .MP4 as
\* a video.
C24_Witness ==
  \E h \in Handlers :
    /\ hs[h].recovered
    /\ hs[h].data.creative_url = <<"V", ".", "M", "P", "4">>
    /\ hs[h].data.creative_type = "video"

\* C25: once a decide call for an id has ended with "Approved & Posted" or
\* "Declined" shown, pending_posts holds no entry for that id, whatever steps the
\* pipeline or other submissions take afterwards.
C25_DecidedIdHasNoEntry ==
  \A id \in PageIds :
    (admin_msg[id] \in {"approved", "declined"} /\ ~Busy(id))
    => id \notin DOMAIN pending_posts

\* the id a handler is deciding on, also in the step that starts it
DecidedId(h) == IF Active(h) THEN hs[h].page_id ELSE hs'[h].page_id

\* C26: a step of a decide call on one id leaves alone, for every other id, the
\* durable record, the pending_posts entry, what was published to the main
\* channel, the secondary pipelines created and the decision message, and it
\* leaves alone every other decide call, also while an article is being
\* submitted.
C26_DecisionsDoNotInterfere ==
  [][\A h \in Handlers :
       (hs'[h] # hs[h] /\ NoRestartStep) =>
         /\ \A g \in Handlers \ {h} : hs'[g] = hs[g]
         /\ Len(store') = Len(store)
         /\ \A b \in PageIds \ {DecidedId(h)} :
              /\ b \in DOMAIN store => store'[b] = store[b]
              /\ b \in DOMAIN pending_posts <=> b \in DOMAIN pending_posts'
              /\ b \in DOMAIN pending_posts => pending_posts'[b] = pending_posts[b]
              /\ main_channel'[b] = main_channel[b]
              /\ ru_tasks'[b] = ru_tasks[b]
              /\ admin_msg'[b] = admin_msg[b]]_vars

\* C26 witness: article 1 was declined; article 2, submitted meanwhile, has been
\* approved and published, and article 1 is as the decline left it.
C26_Witness ==
  \E h \in Handlers :
    /\ hs[h].page_id = 2 /\ hs[h].action = "approve" /\ hs[h].pc = "marked"
    /\ ~hs[h].recovered
    /\ 2 \in DOMAIN pending_posts
    /\ Published(2) = 1
    /\ store[1].status = Declined
    /\ admin_msg[1] = "declined"
    /\ Published(1) = 0

\* C27: when summarize, the relevance filter or the post writer meets a fault,
\* or the record cannot be created, process_article returns without a record
\* or a preview for the article, the next step of the cycle starts the next
\* article of the list, and send_error was called for the fault.
C27_FaultDropsAndNotifies ==
  [][(pl' # pl /\ pl'.drop.fault) =>
       /\ pl.pc \in {"summarize", "relevance", "write", "save"}
       /\ StartsNextArticle
       /\ UNCHANGED <<store, pending_posts, admin_msg, keyboards>>
       /\ pl'.drop.alert # "none"]_vars

\* C28: while an article is in summarize, the relevance filter, the duplicate
\* filter, the post writer, fix_html or find_creative, no step of its processing
\* (a drop included) changes the store, pending_posts or what the admin channel
\* shows; create_row adds at most one record, with status 'Sent for approval';
\* from then on no step of the article's processing changes the store, so when
\* send_preview fails that one record is left as it was created, with no
\* pending_posts entry and no keyboard.
C28_DropLeavesNoTraceFailureLeavesRecord ==
  [][pl' # pl =>
       /\ pl.pc \in {"summarize", "relevance", "dedup", "write", "fix_html", "creative"} =>
            UNCHANGED <<store, pending_posts, admin_msg, keyboards>>
       /\ pl.pc = "save" =>
            /\ store' \in {store, Append(store, NewRecord(pl.url, pl.creative.creative_url,
                                                         pl.post_len))}
            /\ UNCHANGED <<pending_posts, admin_msg, keyboards>>
       /\ pl.pc \in {"preview", "buttons", "store_pending", "preview_failed"} =>
            store' = store
       /\ (pl.pc \in {"preview", "buttons"} /\ pl'.pc = "preview_failed") =>
            /\ pl.page_id = Len(store)
            /\ store[pl.page_id].url = pl.url
            /\ store[pl.page_id].status = SentForApproval
            /\ pl.page_id \notin DOMAIN pending_posts'
            /\ admin_msg'[pl.page_id] = "none"
            /\ keyboards' = keyboards]_vars

\* C28 witness: the second article of a cycle has failed in send_preview after
\* its record was created; the first one was dropped before create_row.
C28_Witness ==
  /\ pl.pc = "preview_failed"
  /\ Len(store) = 1
  /\ store[1].url = 2
  /\ store[1].status = SentForApproval
  /\ DOMAIN pending_posts = {}
  /\ keyboards = <<>>

\* C29: a decide call that found no pending_posts entry and whose read of the
\* record does not let it go on publishes nothing, updates no status, changes
\* no pending_posts entry and starts no secondary pipeline, in that step and in
\* the rest of the call; it goes on to the action only with the data of the
\* record it read; when the record is at 'Sent for approval' (so that only a
\* failed read stops the call) the step ends the call with the not-found text
\* in the decision message, or passes to the except block when that edit
\* raises.
C29_RecoveryStep(h) ==
  LET id == hs[h].page_id
  IN /\ (hs[h].pc = "fetching" /\ hs'[h] # hs[h] /\ NoRestartStep) =>
          /\ UNCHANGED <<store, pending_posts, main_channel, ru_tasks>>
          /\ \/ /\ hs'[h].pc \in {"sending", "marking"}
                /\ hs'[h].data = Recovered(get_article_data(id))
             \/ /\ hs'[h].pc = "idle"
                /\ admin_msg'[id] \in {"not_found", "already_posted", "already_declined"}
                /\ store[id].status = SentForApproval => admin_msg'[id] = "not_found"
             \/ /\ hs'[h].pc = "crashed"
                /\ admin_msg' = admin_msg
     /\ (hs[h].pc = "crashed" /\ ~hs[h].recovered /\ hs[h].seen = SentForApproval
           /\ hs[h].result = 0 /\ hs[h].upd = "no" /\ id \notin DOMAIN pending_posts
           /\ hs'[h] # hs[h] /\ NoRestartStep) =>
          /\ UNCHANGED <<store, pending_posts, main_channel, ru_tasks>>
          /\ hs'[h].pc = "idle"

C29_MissingRecordIsReported == [][\A h \in Handlers : C29_RecoveryStep(h)]_vars

\* C29 witness: after a restart a decision on a record at 'Sent for approval'
\* has ended with the not-found text; nothing was published or updated.
C29_Witness ==
  \E id \in DOMAIN store :
    /\ admin_msg[id] = "not_found"
    /\ store[id].status = SentForApproval
    /\ Published(id) = 0
    /\ ru_tasks[id] = 0
    /\ ~Busy(id)
    /\ id \notin DOMAIN pending_posts
    /\ budget.restarts < MaxRestarts

\* the attempts made so far by the call that is followed
Attempts == Len(cc.tried)

\* C30: a chat_completion call makes at most MAX_RETRIES attempts; an attempt
\* that fails before the last one is followed by another attempt; the call
\* returns at its first successful attempt and makes no attempt after it; it
\* raises only when the last attempt has failed, and then the error of that
\* attempt.
C30_BoundedRetry ==
  /\ [](Attempts <= MAX_RETRIES)
  /\ [](cc.pc = "returned" =>
          /\ Succeeds(cc.tried[Attempts], cc.json_mode)
          /\ \A k \in 1..(Attempts - 1) : ~Succeeds(cc.tried[k], cc.json_mode))
  /\ [](cc.pc = "raised" =>
          /\ Attempts = MAX_RETRIES
          /\ cc.error = cc.tried[Attempts])
  /\ [][(cc.pc = "request" /\ cc' # cc) =>
          /\ Len(cc'.tried) = Attempts + 1
          /\ cc'.pc = IF Succeeds(cc'.tried[Attempts + 1], cc.json_mode) THEN "returned"
                      ELSE IF Attempts + 1 < MAX_RETRIES THEN "sleeping"
                      ELSE "raised"]_vars
  /\ [][(cc.pc \in {"returned", "raised"} /\ cc' # cc) => cc'.tried = <<>>]_vars
  /\ [][(cc.pc = "sleeping" /\ cc' # cc) => (cc'.pc = "request" /\ cc'.tried = cc.tried)]_vars

\* C31: once a record exists, a step changes nothing of it but its status and
\* its post URL: the article URL, the stored post text and the creative
\* reference stay as create_article_page wrote them, and no record is removed
\* (the store only grows, at its end, by records at 'Sent for approval').
C31_OnlyStatusAndPostUrlAreWritten ==
  [][/\ Len(store') >= Len(store)
     /\ \A i \in DOMAIN store :
          store'[i] = [store[i] EXCEPT !.status = store'[i].status,
                                       !.post_url = store'[i].post_url]
     /\ \A i \in DOMAIN store' \ DOMAIN store :
          /\ store'[i].status = SentForApproval
          /\ store'[i].post_url = 0]_vars

\* C31 witness: a record with a creative reference was approved; it is Posted,
\* carries the post URL, and its other fields are those of the new record.
C31_Witness ==
  \E i \in DOMAIN store, len \in PostLens :
    /\ store[i].status = Posted
    /\ store[i].post_url # 0
    /\ store[i] = [NewRecord(store[i].url, Mp4Url, len) EXCEPT !.status = Posted,
                                                              !.post_url = store[i].post_url]

\* C32: the step that takes up a decision event is the acknowledgement and
\* nothing else: it reads and writes neither pending_posts nor the store,
\* publishes nothing and edits no message, and the invocation it starts holds
\* no article data, no status seen and no result; every lookup, Notion read,
\* publish and status update of the event is a later step of that invocation
\* (when the acknowledgement raises there is no invocation and no such step).
C32_AcknowledgedBeforeAnythingElse ==
  /\ [](\A h \in Handlers :
          hs[h].pc = "acked" =>
            hs[h] = [IdleHandler EXCEPT !.pc = "acked", !.action = hs[h].action,
                                        !.page_id = hs[h].page_id])
  /\ [][budget'.decisions < budget.decisions =>
          /\ UNCHANGED <<store, pending_posts, main_channel, admin_msg, ru_tasks, ru_channel>>
          /\ \A h \in Handlers : hs'[h] # hs[h] => hs[h].pc = "idle" /\ hs'[h].pc = "acked"]_vars
  /\ [][\A h \in Handlers :
          (hs'[h] # hs[h] /\ hs'[h].pc \notin {"idle", "acked"} /\ NoRestartStep)
          => hs[h].pc # "idle"]_vars

\* C32 witness: a decision event on a pending article has been acknowledged
\* and nothing has been looked up yet.
C32_Witness ==
  \E h \in Handlers :
    /\ hs[h].pc = "acked"
    /\ hs[h].seen = "none"
    /\ hs[h].page_id \in DOMAIN pending_posts
    /\ store[hs[h].page_id].status = SentForApproval
    /\ admin_msg[hs[h].page_id] = "keyboard"

\* C33: every pending_posts entry whose id no decide call is working on belongs
\* to a record at 'Sent for approval'; in particular, when a decision was
\* handled through the recovery path before send_preview stored the entry of
\* that id, no entry is left for the Posted or Declined record.
C33_PendingEntryMeansPendingRecord ==
  \A id \in DOMAIN pending_posts :
    ~Busy(id) => store[id].status = SentForApproval

\* C34: whatever decision events are handled, one at a time, and wherever the
\* process is restarted in between (also between two steps of a decide call),
\* the main channel holds at most one post of each record.
C34_AtMostOncePerRecordAcrossRestarts ==
  \A id \in DOMAIN store : Published(id) <= 1

\* the Approve / Decline message of id was delivered to the admin channel
ButtonsDelivered(id) == \E k \in DOMAIN keyboards : keyboards[k] = build_keyboard(id)

\* C35: every keyboard delivered carries, in both buttons, the id of a record
\* that exists; an id has a pending_posts entry only if its keyboard was
\* delivered, the entry being stored by the step that follows the delivery;
\* when create_row fails the article gets no preview, no keyboard and no
\* entry; when a step of send_preview fails, that step and the one after it
\* store no entry (a restart, which empties pending_posts, set aside).
C35_ButtonsNeedRecordEntryNeedsButtons ==
  /\ [](\A k \in DOMAIN keyboards :
          \E id \in DOMAIN store : keyboards[k] = build_keyboard(id))
  /\ [](\A id \in DOMAIN pending_posts : ButtonsDelivered(id))
  /\ [][\A id \in DOMAIN pending_posts' \ DOMAIN pending_posts :
          /\ pl.pc = "store_pending"
          /\ id = pl.page_id
          /\ ButtonsDelivered(id)]_vars
  /\ [][(pl.pc = "save" /\ pl' # pl /\ store' = store /\ NoRestartStep) =>
          /\ pl'.pc \notin {"preview", "buttons", "store_pending"}
          /\ pl'.page_id = 0
          /\ UNCHANGED <<keyboards, admin_msg, pending_posts>>]_vars
  /\ [][(pl' # pl /\ "preview_failed" \in {pl.pc, pl'.pc} /\ NoRestartStep) =>
          /\ pending_posts' = pending_posts
          /\ pl'.pc # "store_pending"]_vars

\* C35 witness: the first article of a cycle has its keyboard and its entry;
\* the second has its record, and its send_preview has failed.
C35_Witness ==
  /\ pl.pc = "preview_failed"
  /\ Len(store) = 2
  /\ DOMAIN pending_posts = {1}
  /\ keyboards = <<build_keyboard(1)>>

\* ------------------------------------------------- a cycle with its chat calls
\* the stages whose node calls chat_completion, once, in its worker thread
\* (summarizer.py 67, relevance_checker.py 69, duplicate_control.py 92,
\* post_writer.py 177)
GenStages == {"summarize", "relevance", "dedup", "write"}

\* every node asks for JSON but the post writer (post_writer.py 183)
JsonModeOf(stage) == stage # "write"

\* no node is inside a chat_completion call or about to take its result
ChatQuiet == cc.pc = "idle"

\* the node of the stage at hand calls chat_completion; the call is followed
\* while budget.chats lasts
NodeCall(lib) ==
  /\ pl.pc \in GenStages
  /\ cc.pc = "idle"
  /\ LoopFree
  /\ ChatCall(JsonModeOf(pl.pc), lib)

NodeResumes_CallsAgainOnError ==
  /\ cc.pc \in {"returned", "raised"}
  /\ cc' = IF cc.pc = "raised"
           THEN [IdleChat EXCEPT !.pc = "request", !.json_mode = cc.json_mode,
                                 !.lib = cc.lib, !.attempt = 1]
           ELSE IdleChat
  /\ budget' = budget
  /\ ChatFrame

\* chat_completion has returned or raised into the node, which catches what it
\* raises (summarizer.py 88-91, relevance_checker.py 89-92,
\* duplicate_control.py 112-116, post_writer.py 194-197)
NodeResumes ==
  /\ cc.pc \in {"returned", "raised"}
  /\ cc' = IdleChat
  /\ budget' = budget
  /\ ChatFrame

\* a step of the cycle that is under way: process_article awaits its stage,
\* and the stage's node awaits its chat_completion call
CycleStep ==
  \/ pl.pc # "idle" /\ ChatQuiet /\ PipelineNext
  \/ \E out \in AttemptOutcomes(TRUE) : ChatAttempt(out)
  \/ ChatWake
  \/ NodeResumes

CycleNext ==
  \/ ChatQuiet /\ PipelineNext
  \/ \E lib \in {"json", "simplejson"} : NodeCall(lib)
  \/ \E out \in AttemptOutcomes(TRUE) : ChatAttempt(out)
  \/ ChatWake
  \/ NodeResumes

InitCycle ==
  Boot([decisions |-> 0, restarts |-> 0, fetches |-> Submissions, events |-> Submissions,
        ru |-> 0, chats |-> MaxCalls])

\* run_pipeline with the chat_completion calls of its nodes.  Every call that is
\* awaited returns or fails: a step of the cycle under way is eventually taken.
SpecCycle == InitCycle /\ [][CycleNext]_vars /\ WF_vars(CycleStep)

\* what is left of the cycle: the articles still on the list, and the awaits
\* the article at hand still has before it
Rank(p) ==
  IF p.pc = "idle" THEN 0
  ELSE (Len(StageOrder) + 2) * Len(p.queue)
         + (IF IsStage(p.pc) THEN Len(StageOrder) + 2 - StageIndex(p.pc) ELSE 1)

ForeignActions == {"other", "malformed"}

\* main.py 148-158 for such a payload.  The id of an "other" payload is that of
\* a record; for an id without a record get_article_data returns None, as it
\* does on a fault.  A malformed payload has no id.
HStartForeign(h, action, page_id, acked) ==
  /\ \A g \in Handlers : ~Active(g)
  /\ LoopFree
  /\ \A g \in Handlers : h <= g
  /\ page_id \in (IF action = "malformed" THEN {0} ELSE DOMAIN store)
  /\ budget.decisions > 0
  /\ budget.events > 0
  /\ hs' = IF acked
           THEN [hs EXCEPT ![h] = [IdleHandler EXCEPT !.pc = "acked", !.action = action,
                                                      !.page_id = page_id]]
           ELSE hs
  /\ budget' = [budget EXCEPT !.decisions = @ - 1, !.events = @ - 1]
  /\ UNCHANGED <<cc, keyboards, rus, ru_channel, store, pending_posts, admin_msg, main_channel, ru_tasks, pl, calls>>

\* main.py 153-156: data.split(":", 1) gives one part and the handler returns
HReject(h) ==
  /\ hs[h].pc = "acked"
  /\ hs[h].action = "malformed"
  /\ LoopFree
  /\ hs' = [hs EXCEPT ![h] = IdleHandler]
  /\ UNCHANGED <<cc, keyboards, rus, ru_channel, store, pending_posts, admin_msg, main_channel, ru_tasks, pl, calls, budget>>

PayloadNext ==
  \/ SequentialNext
  \/ \E h \in Handlers, a \in ForeignActions, id \in {0} \cup PageIds, acked \in BOOLEAN :
       HStartForeign(h, a, id, acked)
  \/ \E h \in Handlers : HReject(h)

\* The process with callback queries of every kind, handled one at a time.
SpecPayload == Init /\ [][PayloadNext]_vars

\* C37: a callback query whose payload has no ':' or whose action is neither
\* approve nor decline changes nothing but the handler that takes it and, at
\* most, the text of a decision message: no step of its handling publishes to
\* the main channel, starts or runs a secondary pipeline, writes to the store
\* or changes pending_posts; it never reaches the send or the status update.
C37_ForeignPayloadChangesNothing ==
  [][\A h \in Handlers :
       (hs'[h] # hs[h] /\ NoRestartStep
          /\ (hs[h].action \in ForeignActions \/ hs'[h].action \in ForeignActions))
       => /\ UNCHANGED <<main_channel, ru_tasks, rus, ru_channel, store, pending_posts>>
          /\ hs'[h].pc \in {"idle", "acked", "fetching", "crashed"}
          /\ hs[h].action = "malformed" => hs'[h].pc = "idle" /\ admin_msg' = admin_msg]_vars

\* C37 witness: a payload with another action, for an article that is pending
\* with its entry, has been taken up and acknowledged.
C37_Witness ==
  \E h \in Handlers :
    /\ hs[h].action = "other"
    /\ hs[h].pc = "acked"
    /\ hs[h].page_id \in DOMAIN pending_posts
    /\ store[hs[h].page_id].status = SentForApproval

====
